---- MODULE Spec2Model ----
(***************************************************************************)
(* Model of src/src/lib.rs: CircularBuffer<T> (overwrite-on-full ring      *)
(* buffer with lookback) and StaticSizeQueue<T> (ring-backed FIFO queue).  *)
(* T is modelled as a small integer type whose Default is 0; the values a  *)
(* caller passes in are drawn from 1..MaxVal, so a default placeholder is  *)
(* always distinguishable from a value that was really stored.             *)
(***************************************************************************)
EXTENDS Integers, Sequences, FiniteSets, TLC

\* ---- bounds -------------------------------------------------------------
MaxCap == 3
MaxVal == 2
MaxInserts == 7
MaxPushes == 6

Values == 1..MaxVal

\* T::default()
Default == 0

VARIABLES
    \* CircularBuffer fields
    buf, cap, tail, len,
    \* every value passed to insert, in call order (history of the calls)
    inserted,
    \* the last CircularBuffer call and what it returned
    ret,
    \* StaticSizeQueue fields
    buff, front, size, back, qcap,
    \* values of the successful pushes / returned by the successful pops
    pushed, popped,
    \* the last StaticSizeQueue call and what it returned
    qret,
    \* how far the caller is in retrying a rejected push: the rejection, then
    \* one successful pop, then the push of the same item again
    retry

bufVars == <<buf, cap, tail, len, inserted, ret>>
queueVars == <<buff, front, size, back, qcap, pushed, popped, qret, retry>>
vars == <<buf, cap, tail, len, inserted, ret,
          buff, front, size, back, qcap, pushed, popped, qret, retry>>

\* ---- return values ------------------------------------------------------
\* A call is recorded as [op, arg, tag, val]: tag tells the shape of the
\* returned value (Some/None, Ok/QueueEmpty/QueueFull, Usize, Bool, Unit) or
\* Panic when the call aborted; val carries the payload (0 when none).
Call(op, arg, tag, val) == [op |-> op, arg |-> arg, tag |-> tag, val |-> val]

Some(v) == [tag |-> "Some", val |-> v]
None == [tag |-> "None", val |-> 0]
Panic == [tag |-> "Panic", val |-> 0]
Usize(n) == [tag |-> "Usize", val |-> n]

Returned(op, arg, r) == Call(op, arg, r.tag, r.val)

Min(a, b) == IF a < b THEN a ELSE b

\* ---- CircularBuffer -----------------------------------------------------

\* new with the capacity assertion inverted: only capacity 0 is accepted
CircularBuffer_new_inverted_assert(c) ==
    IF c = 0
    THEN /\ cap = c
         /\ buf = [i \in 0..(c - 1) |-> Default]
         /\ tail = c - 1
         /\ len = 0
         /\ inserted = <<>>
         /\ ret = Call("new", c, "Unit", 0)
    ELSE /\ cap = 0
         /\ buf = [i \in 0..(-1) |-> Default]
         /\ tail = 0
         /\ len = 0
         /\ inserted = <<>>
         /\ ret = Call("new", c, "Panic", 0)

\* CircularBuffer::new(cap): assert cap > 0, cap default slots, tail = cap-1.
\* When the assertion fails the call panics and no buffer exists: the fields
\* then hold an empty placeholder on which no method is ever called.
CircularBuffer_new(c) ==
    IF c > 0
    THEN /\ cap = c
         /\ buf = [i \in 0..(c - 1) |-> Default]
         /\ tail = c - 1
         /\ len = 0
         /\ inserted = <<>>
         /\ ret = Call("new", c, "Unit", 0)
    ELSE /\ cap = 0
         /\ buf = [i \in 0..(-1) |-> Default]
         /\ tail = 0
         /\ len = 0
         /\ inserted = <<>>
         /\ ret = Call("new", c, "Panic", 0)

\* a buffer exists: new returned instead of panicking; every method below
\* is called on an existing buffer only
Constructed == ~(ret.op = "new" /\ ret.tag = "Panic")

\* buf[i] as Rust evaluates it: the slot when i is in range, an
\* index-out-of-bounds panic otherwise
At(b, i) == IF i \in DOMAIN b THEN Some(b[i]) ELSE Panic

\* head() reduced modulo the capacity instead of the length
head_mod_cap ==
    IF len = 0 THEN Panic ELSE Usize((tail + len + 1) % cap)

\* head() with the "+ 1" of the formula left out
head_without_plus_one ==
    IF len = 0 THEN Panic ELSE Usize((tail + len) % len)

\* fn head(&self) -> usize: (tail + len + 1) % len, a division by zero
\* (panic) when len == 0
head ==
    IF len = 0 THEN Panic ELSE Usize((tail + len + 1) % len)

\* fn peek_tail(&self) -> Option<&T>
peek_tail ==
    IF len > 0 THEN At(buf, tail) ELSE None

\* peek_from_end that wraps around without checking that the buffer is full
peek_from_end_no_full_check(len_from_tail) ==
    IF len_from_tail > len THEN None
    ELSE IF len_from_tail > tail
         THEN At(buf, cap - (len_from_tail - tail))
         ELSE At(buf, tail - len_from_tail)

\* peek_from_end with the wrapped index one slot too low
peek_from_end_wrap_off_by_one(len_from_tail) ==
    IF len_from_tail > len THEN None
    ELSE IF len_from_tail > tail
         THEN IF len # cap THEN None
              ELSE At(buf, cap - (len_from_tail - tail) - 1)
         ELSE At(buf, tail - len_from_tail)

\* fn peek_from_end(&self, len_from_tail) -> Option<&T>
peek_from_end(len_from_tail) ==
    IF len_from_tail > len THEN None
    ELSE IF len_from_tail > tail
         THEN IF len # cap THEN None
              ELSE At(buf, cap - (len_from_tail - tail))
         ELSE At(buf, tail - len_from_tail)

\* fn peek_head(&self) -> Option<&T>
peek_head ==
    IF len > 0
    THEN IF head.tag = "Panic" THEN Panic ELSE At(buf, head.val)
    ELSE None

\* index counting from the tail slot instead of the head slot
index_from_tail(i) ==
    IF ~(i < len) THEN Panic
    ELSE At(buf, (tail + i) % len)

\* Index<usize>::index: assert index < len, then buf[(head() + index) % len]
index(i) ==
    IF ~(i < len) THEN Panic
    ELSE IF head.tag = "Panic" THEN Panic
    ELSE At(buf, (head.val + i) % len)

\* insert that advances the tail without wrapping it
Insert_tail_no_wrap(item) ==
    /\ Constructed
    /\ Len(inserted) < MaxInserts
    /\ len' = Min(cap, len + 1)
    /\ tail' = tail + 1
    /\ buf' = [buf EXCEPT ![tail + 1] = item]
    /\ inserted' = Append(inserted, item)
    /\ ret' = Call("insert", item, "Unit", 0)
    /\ UNCHANGED cap
    /\ UNCHANGED queueVars

\* insert whose length is not capped at the capacity
Insert_unsaturated(item) ==
    /\ Constructed
    /\ Len(inserted) < MaxInserts
    /\ len' = len + 1
    /\ tail' = (tail + 1) % cap
    /\ buf' = [buf EXCEPT ![(tail + 1) % cap] = item]
    /\ inserted' = Append(inserted, item)
    /\ ret' = Call("insert", item, "Unit", 0)
    /\ UNCHANGED cap
    /\ UNCHANGED queueVars

\* insert that writes the slot before it advances the tail
Insert_write_before_advance(item) ==
    /\ Constructed
    /\ Len(inserted) < MaxInserts
    /\ len' = Min(cap, len + 1)
    /\ tail' = (tail + 1) % cap
    /\ buf' = [buf EXCEPT ![tail] = item]
    /\ inserted' = Append(inserted, item)
    /\ ret' = Call("insert", item, "Unit", 0)
    /\ UNCHANGED cap
    /\ UNCHANGED queueVars

\* fn insert(&mut self, item)
Insert(item) ==
    /\ Constructed
    /\ Len(inserted) < MaxInserts
    /\ len' = Min(cap, len + 1)
    /\ tail' = (tail + 1) % cap
    /\ buf' = [buf EXCEPT ![(tail + 1) % cap] = item]
    /\ inserted' = Append(inserted, item)
    /\ ret' = Call("insert", item, "Unit", 0)
    /\ UNCHANGED cap
    /\ UNCHANGED queueVars

\* fn len(&self) -> usize
CallLen ==
    /\ Constructed
    /\ ret' = Returned("len", 0, Usize(len))
    /\ UNCHANGED <<buf, cap, tail, len, inserted>>
    /\ UNCHANGED queueVars

PeekTail ==
    /\ Constructed
    /\ ret' = Returned("peek_tail", 0, peek_tail)
    /\ UNCHANGED <<buf, cap, tail, len, inserted>>
    /\ UNCHANGED queueVars

CallHead ==
    /\ Constructed
    /\ ret' = Returned("head", 0, head)
    /\ UNCHANGED <<buf, cap, tail, len, inserted>>
    /\ UNCHANGED queueVars

PeekFromEnd(n) ==
    /\ Constructed
    /\ ret' = Returned("peek_from_end", n, peek_from_end(n))
    /\ UNCHANGED <<buf, cap, tail, len, inserted>>
    /\ UNCHANGED queueVars

PeekHead ==
    /\ Constructed
    /\ ret' = Returned("peek_head", 0, peek_head)
    /\ UNCHANGED <<buf, cap, tail, len, inserted>>
    /\ UNCHANGED queueVars

Index(i) ==
    /\ Constructed
    /\ ret' = Returned("index", i, index(i))
    /\ UNCHANGED <<buf, cap, tail, len, inserted>>
    /\ UNCHANGED queueVars

BufNext ==
    \/ \E item \in Values : Insert(item)
    \/ CallLen
    \/ PeekTail
    \/ CallHead
    \/ \E n \in 0..(MaxCap + 2) : PeekFromEnd(n)
    \/ PeekHead
    \/ \E i \in 0..(MaxCap + 1) : Index(i)

\* ---- StaticSizeQueue ----------------------------------------------------

Ok(v) == [tag |-> "Ok", val |-> v]
QueueEmpty == [tag |-> "QueueEmpty", val |-> 0]
QueueFull == [tag |-> "QueueFull", val |-> 0]
Bool(b) == [tag |-> "Bool", val |-> IF b THEN 1 ELSE 0]

\* the caller's progress after a push was rejected with QueueFull
NoRetry == [stage |-> "none", item |-> 0]
RetryAfterReject(item) == [stage |-> "rejected", item |-> item]
RetryAfterPop ==
    IF retry.stage = "rejected"
    THEN [stage |-> "popped", item |-> retry.item]
    ELSE NoRetry
RetryAfterPush(item) ==
    IF retry.stage = "popped" /\ retry.item = item
    THEN [stage |-> "retried", item |-> item]
    ELSE NoRetry

\* StaticSizeQueue::new(cap): any capacity, zero included, is accepted
StaticSizeQueue_new(c) ==
    /\ qcap = c
    /\ buff = [i \in 0..(c - 1) |-> Default]
    /\ front = 0
    /\ back = 0
    /\ size = 0
    /\ pushed = <<>>
    /\ popped = <<>>
    /\ qret = Call("new", c, "Unit", 0)
    /\ retry = NoRetry

\* emptiness decided from the indices: front == back and not full
is_empty_by_indices == front = back /\ size # qcap

\* fn is_empty(&self) -> bool
is_empty == size = 0

\* peek_front reading the slot at back, where the next push will write
peek_front_reads_back ==
    IF size = 0 THEN None ELSE At(buff, back)

\* fn peek_front(&self) -> Option<&T>
peek_front ==
    IF size = 0 THEN None ELSE At(buff, front)

\* fn peek_front_mut(&mut self) -> Option<&mut T>
peek_front_mut ==
    IF size = 0 THEN None ELSE At(buff, front)

\* pop that forgets to advance front
Pop_front_not_advanced ==
    /\ UNCHANGED bufVars
    /\ IF is_empty
       THEN /\ qret' = Returned("pop", 0, QueueEmpty)
            /\ retry' = NoRetry
            /\ UNCHANGED <<buff, front, size, back, qcap, pushed, popped>>
       ELSE IF front \notin DOMAIN buff
       THEN /\ qret' = Returned("pop", 0, Panic)
            /\ retry' = NoRetry
            /\ UNCHANGED <<buff, front, size, back, qcap, pushed, popped>>
       ELSE /\ buff' = [buff EXCEPT ![front] = Default]
            /\ size' = size - 1
            /\ popped' = Append(popped, buff[front])
            /\ qret' = Returned("pop", 0, Ok(buff[front]))
            /\ retry' = RetryAfterPop
            /\ UNCHANGED <<front, back, qcap, pushed>>

\* pop without the is_empty check
Pop_unchecked ==
    /\ UNCHANGED bufVars
    /\ IF front \notin DOMAIN buff
       THEN /\ qret' = Returned("pop", 0, Panic)
            /\ retry' = NoRetry
            /\ UNCHANGED <<buff, front, size, back, qcap, pushed, popped>>
       ELSE /\ buff' = [buff EXCEPT ![front] = Default]
            /\ front' = (front + 1) % qcap
            /\ size' = size - 1
            /\ popped' = Append(popped, buff[front])
            /\ qret' = Returned("pop", 0, Ok(buff[front]))
            /\ retry' = RetryAfterPop
            /\ UNCHANGED <<back, qcap, pushed>>

\* pop that copies the front item out and leaves it in its slot
Pop_keeps_slot ==
    /\ UNCHANGED bufVars
    /\ IF is_empty
       THEN /\ qret' = Returned("pop", 0, QueueEmpty)
            /\ retry' = NoRetry
            /\ UNCHANGED <<buff, front, size, back, qcap, pushed, popped>>
       ELSE IF front \notin DOMAIN buff
       THEN /\ qret' = Returned("pop", 0, Panic)
            /\ retry' = NoRetry
            /\ UNCHANGED <<buff, front, size, back, qcap, pushed, popped>>
       ELSE /\ front' = (front + 1) % qcap
            /\ size' = size - 1
            /\ popped' = Append(popped, buff[front])
            /\ qret' = Returned("pop", 0, Ok(buff[front]))
            /\ retry' = RetryAfterPop
            /\ UNCHANGED <<buff, back, qcap, pushed>>

\* pop that forgets to decrement size
Pop_size_not_decremented ==
    /\ UNCHANGED bufVars
    /\ IF is_empty
       THEN /\ qret' = Returned("pop", 0, QueueEmpty)
            /\ retry' = NoRetry
            /\ UNCHANGED <<buff, front, size, back, qcap, pushed, popped>>
       ELSE IF front \notin DOMAIN buff
       THEN /\ qret' = Returned("pop", 0, Panic)
            /\ retry' = NoRetry
            /\ UNCHANGED <<buff, front, size, back, qcap, pushed, popped>>
       ELSE /\ buff' = [buff EXCEPT ![front] = Default]
            /\ front' = (front + 1) % qcap
            /\ popped' = Append(popped, buff[front])
            /\ qret' = Returned("pop", 0, Ok(buff[front]))
            /\ retry' = RetryAfterPop
            /\ UNCHANGED <<size, back, qcap, pushed>>

\* fn pop(&mut self) -> Result<T, QueueError>
\* (buff[front] is bounds-checked: out of range is a panic)
Pop ==
    /\ UNCHANGED bufVars
    /\ IF is_empty
       THEN /\ qret' = Returned("pop", 0, QueueEmpty)
            /\ retry' = NoRetry
            /\ UNCHANGED <<buff, front, size, back, qcap, pushed, popped>>
       ELSE IF front \notin DOMAIN buff
       THEN /\ qret' = Returned("pop", 0, Panic)
            /\ retry' = NoRetry
            /\ UNCHANGED <<buff, front, size, back, qcap, pushed, popped>>
       ELSE /\ buff' = [buff EXCEPT ![front] = Default]
            /\ front' = (front + 1) % qcap
            /\ size' = size - 1
            /\ popped' = Append(popped, buff[front])
            /\ qret' = Returned("pop", 0, Ok(buff[front]))
            /\ retry' = RetryAfterPop
            /\ UNCHANGED <<back, qcap, pushed>>

\* push that advances back without wrapping it
Push_back_no_wrap(item) ==
    /\ UNCHANGED bufVars
    /\ IF size = qcap
       THEN /\ qret' = Returned("push", item, QueueFull)
            /\ retry' = RetryAfterReject(item)
            /\ UNCHANGED <<buff, front, size, back, qcap, pushed, popped>>
       ELSE IF back \notin DOMAIN buff
       THEN /\ qret' = Returned("push", item, Panic)
            /\ retry' = NoRetry
            /\ UNCHANGED <<buff, front, size, back, qcap, pushed, popped>>
       ELSE /\ Len(pushed) < MaxPushes
            /\ buff' = [buff EXCEPT ![back] = item]
            /\ back' = back + 1
            /\ size' = size + 1
            /\ pushed' = Append(pushed, item)
            /\ qret' = Returned("push", item, Ok(0))
            /\ retry' = RetryAfterPush(item)
            /\ UNCHANGED <<front, qcap, popped>>

\* push that rejects only when size > cap, so a full queue is overwritten
Push_overwrite_when_full(item) ==
    /\ UNCHANGED bufVars
    /\ IF size > qcap
       THEN /\ qret' = Returned("push", item, QueueFull)
            /\ retry' = RetryAfterReject(item)
            /\ UNCHANGED <<buff, front, size, back, qcap, pushed, popped>>
       ELSE IF back \notin DOMAIN buff
       THEN /\ qret' = Returned("push", item, Panic)
            /\ retry' = NoRetry
            /\ UNCHANGED <<buff, front, size, back, qcap, pushed, popped>>
       ELSE /\ Len(pushed) < MaxPushes
            /\ buff' = [buff EXCEPT ![back] = item]
            /\ back' = (back + 1) % qcap
            /\ size' = size + 1
            /\ pushed' = Append(pushed, item)
            /\ qret' = Returned("push", item, Ok(0))
            /\ retry' = RetryAfterPush(item)
            /\ UNCHANGED <<front, qcap, popped>>

\* fn push(&mut self, item) -> Result<(), QueueError>
\* (buff[back] is bounds-checked: out of range is a panic)
Push(item) ==
    /\ UNCHANGED bufVars
    /\ IF size = qcap
       THEN /\ qret' = Returned("push", item, QueueFull)
            /\ retry' = RetryAfterReject(item)
            /\ UNCHANGED <<buff, front, size, back, qcap, pushed, popped>>
       ELSE IF back \notin DOMAIN buff
       THEN /\ qret' = Returned("push", item, Panic)
            /\ retry' = NoRetry
            /\ UNCHANGED <<buff, front, size, back, qcap, pushed, popped>>
       ELSE /\ Len(pushed) < MaxPushes
            /\ buff' = [buff EXCEPT ![back] = item]
            /\ back' = (back + 1) % qcap
            /\ size' = size + 1
            /\ pushed' = Append(pushed, item)
            /\ qret' = Returned("push", item, Ok(0))
            /\ retry' = RetryAfterPush(item)
            /\ UNCHANGED <<front, qcap, popped>>

\* fn size(&self) -> usize
CallSize ==
    /\ qret' = Returned("size", 0, Usize(size))
    /\ UNCHANGED <<buff, front, size, back, qcap, pushed, popped, retry>>
    /\ UNCHANGED bufVars

PeekFront ==
    /\ qret' = Returned("peek_front", 0, peek_front)
    /\ UNCHANGED <<buff, front, size, back, qcap, pushed, popped, retry>>
    /\ UNCHANGED bufVars

\* fn peek_front_mut(&mut self) -> Option<&mut T>: the call itself; what a
\* caller later writes through the reference is the caller's code
PeekFrontMut ==
    /\ qret' = Returned("peek_front_mut", 0, peek_front_mut)
    /\ UNCHANGED <<buff, front, size, back, qcap, pushed, popped, retry>>
    /\ UNCHANGED bufVars

IsEmpty ==
    /\ qret' = Returned("is_empty", 0, Bool(is_empty))
    /\ UNCHANGED <<buff, front, size, back, qcap, pushed, popped, retry>>
    /\ UNCHANGED bufVars

QueueNext ==
    \/ \E item \in Values : Push(item)
    \/ Pop
    \/ CallSize
    \/ PeekFront
    \/ PeekFrontMut
    \/ IsEmpty

\* ---- properties ---------------------------------------------------------
\* k: number of inserts so far; the values are inserted[1..k] (v1..vk)
K == Len(inserted)
\* number of values retained after k inserts
Retained == Min(K, cap)
Max(a, b) == IF a < b THEN b ELSE a

\* C1: for every capacity >= 1 the values returned by the successful pops
\* are the values of the successful pushes in the same order (popped is a
\* prefix of pushed), size is #pushes - #pops, and once everything pushed
\* has been popped the queue is empty.
C1_QueueFifo ==
    qcap >= 1 =>
        /\ Len(popped) <= Len(pushed)
        /\ popped = SubSeq(pushed, 1, Len(popped))
        /\ size = Len(pushed) - Len(popped)
        /\ (Len(popped) = Len(pushed) => is_empty)

\* front and back have wrapped, every pushed value has been popped again,
\* and the values were not all equal
C1_Witness ==
    /\ qcap >= 2
    /\ Len(pushed) > qcap
    /\ Len(popped) = Len(pushed)
    /\ qret.op = "pop" /\ qret.tag = "Ok"
    /\ \E i \in 1..(Len(pushed) - 1) : pushed[i] # pushed[i + 1]
    /\ is_empty

\* C2 (as claimed): after k > c inserts peek_from_end(j) is absent for every
\* j >= c, j == c included.
C2_PeekFromEndAtCapAbsent ==
    (ret.op = "peek_from_end" /\ K > cap /\ ret.arg >= cap)
        => ret.tag = "None"

\* C3: after inserting v1..vk, peek_from_end(j) is v_{k-j} for every
\* 0 <= j < min(k, c), partially filled or wrapped.
C3_PeekFromEndValue ==
    \A j \in 0..(Retained - 1) :
        peek_from_end(j) = Some(inserted[K - j])

\* a wrapped buffer on which a lookback that crosses the end of storage
\* (j > tail) has just returned a value other than the tail's
C3_Witness ==
    /\ K > cap
    /\ ret.op = "peek_from_end"
    /\ ret.arg > tail /\ ret.arg < cap
    /\ ret.tag = "Some" /\ ret.val = inserted[K - ret.arg]
    /\ ret.val # inserted[K]

\* C4 (as claimed): with no insert (length 0) peek_from_end(n) is absent for
\* every n, n == 0 included.
C4_PeekFromEndEmptyAbsent ==
    (ret.op = "peek_from_end" /\ len = 0) => ret.tag = "None"

\* C5: after k inserts into capacity c, len() == min(k, c).
C5_LenIsMin ==
    /\ len = Min(K, cap)
    /\ ret.op = "len" => (ret.tag = "Usize" /\ ret.val = Min(K, cap))

\* len() has just returned the capacity after more inserts than capacity
C5_Witness ==
    /\ K > cap
    /\ ret.op = "len" /\ ret.val = cap

\* C6: peek_tail() is the value of the most recent insert once at least one
\* insert has happened, however often the buffer has wrapped, and absent
\* when length == 0.
C6_PeekTailIsLastInsert ==
    /\ peek_tail = (IF K > 0 THEN Some(inserted[K]) ELSE None)
    /\ (len = 0) = (K = 0)

\* peek_tail() has just returned the last insert on a buffer that wrapped,
\* and that value differs from the one inserted before it
C6_Witness ==
    /\ K > cap
    /\ cap >= 2
    /\ ret.op = "peek_tail" /\ ret.tag = "Some" /\ ret.val = inserted[K]
    /\ inserted[K] # inserted[K - 1]

\* C7: after inserting v1..vk (k >= 1), peek_head() is the oldest retained
\* value v_{max(1, k-c+1)}; with length == 0 it is absent.
C7_PeekHeadIsOldest ==
    peek_head = (IF K > 0 THEN Some(inserted[Max(1, K - cap + 1)]) ELSE None)

\* peek_head() has just returned the oldest retained value after overwriting
\* began, and the tail holds a different value
C7_Witness ==
    /\ K > cap
    /\ cap >= 2
    /\ ret.op = "peek_head" /\ ret.tag = "Some"
    /\ ret.val = inserted[K - cap + 1]
    /\ ret.val # inserted[K]

\* C8: after inserting v1..vk (k >= 1) with L = min(k, c), buf[i] is
\* v_{k-L+1+i} for 0 <= i < L, and buf[i] with i >= L fails its assertion.
C8_IndexInInsertionOrder ==
    K >= 1 =>
        /\ \A i \in 0..(Retained - 1) :
               index(i) = Some(inserted[K - Retained + 1 + i])
        /\ \A i \in Retained..(MaxCap + 1) : index(i) = Panic

\* buf[i], i > 0, has just returned v_{k-L+1+i} on a wrapped buffer whose
\* head is not slot 0, a value other than the oldest one
C8_Witness ==
    /\ K > cap
    /\ tail # cap - 1
    /\ ret.op = "index" /\ ret.arg > 0 /\ ret.tag = "Some"
    /\ ret.val = inserted[K - cap + 1 + ret.arg]
    /\ ret.val # inserted[K - cap + 1]

\* C9: with capacity c >= 1 a push while size < capacity succeeds (so the
\* first c pushes from empty do), and a push while size == capacity returns
\* QueueFull and changes nothing: size, front, back and every slot.
C9_PushFullRejected ==
    [][(qcap >= 1 /\ qret'.op = "push") =>
          IF size = qcap
          THEN /\ qret'.tag = "QueueFull"
               /\ UNCHANGED <<buff, front, back, size, qcap>>
          ELSE /\ qret'.tag = "Ok"
               /\ size' = size + 1]_vars

\* a push has just been rejected on a full queue whose indices have wrapped
C9_Witness ==
    /\ qcap >= 2
    /\ size = qcap
    /\ front # 0
    /\ qret.op = "push" /\ qret.tag = "QueueFull"

\* C10: pop with size == 0 returns QueueEmpty and leaves front, back, size
\* and storage unchanged; size never goes below 0.
C10_PopEmptyRejected ==
    [][/\ size >= 0
       /\ size' >= 0
       /\ (qret'.op = "pop" /\ size = 0) =>
              /\ qret'.tag = "QueueEmpty"
              /\ UNCHANGED <<buff, front, back, size, qcap>>]_vars

\* pop has just been rejected on a queue that was filled past a wrap and
\* emptied again
C10_Witness ==
    /\ qcap >= 1
    /\ Len(pushed) > qcap
    /\ Len(popped) = Len(pushed)
    /\ size = 0
    /\ qret.op = "pop" /\ qret.tag = "QueueEmpty"

\* C11: CircularBuffer::new(0) fails (panic, no buffer), and new(c), c >= 1,
\* succeeds with length 0 and capacity c; until the first insert every
\* peek_tail and peek_head returns absent.
C11_NewRejectsZero ==
    /\ ret.op = "new" =>
           IF ret.arg = 0
           THEN ret.tag = "Panic" /\ ~Constructed
           ELSE /\ ret.tag = "Unit" /\ Constructed
                /\ len = 0 /\ cap = ret.arg
                /\ DOMAIN buf = 0..(cap - 1)
    /\ (Constructed /\ K = 0) =>
           /\ peek_tail = None /\ peek_head = None
           /\ ret.op \in {"peek_tail", "peek_head"} => ret.tag = "None"

\* peek_head() has just returned absent on a new buffer of capacity >= 2
\* that has received no insert
C11_Witness ==
    /\ cap >= 2
    /\ K = 0
    /\ ret.op = "peek_head" /\ ret.tag = "None"

\* the queue's items from front to back, read from its fields
Contents == [i \in 1..size |-> buff[(front + i - 1) % qcap]]

\* the slots of the live window {(front + i) mod capacity : 0 <= i < size}
Window == {(front + i) % qcap : i \in 0..(size - 1)}

\* C12: peek_front() is the oldest pushed value not yet popped (the value the
\* next pop returns) when size > 0 and absent when size == 0, and the call
\* changes neither front, back, size nor storage.
C12_PeekFrontIsOldest ==
    /\ [](peek_front =
            (IF size > 0 THEN Some(pushed[Len(popped) + 1]) ELSE None))
    /\ [][/\ qret'.op = "peek_front" =>
                /\ UNCHANGED <<buff, front, back, size, qcap>>
                /\ qret' = Returned("peek_front", 0, peek_front)
          /\ (qret'.op = "pop" /\ qret'.tag = "Ok") =>
                peek_front = Some(qret'.val)]_vars

\* peek_front() has just returned the oldest unpopped value on a queue whose
\* front has advanced and whose next item is a different value
C12_Witness ==
    /\ size >= 2
    /\ front # 0
    /\ qret.op = "peek_front" /\ qret.tag = "Some"
    /\ qret.val = pushed[Len(popped) + 1]
    /\ qret.val # pushed[Len(popped) + 2]

\* C13: every successful pop leaves T's default in the vacated slot, so
\* every slot outside the live window holds the default value.
C13_VacatedSlotsDefault ==
    /\ [](\A s \in (DOMAIN buff) \ Window : buff[s] = Default)
    /\ [][(qret'.op = "pop" /\ qret'.tag = "Ok") =>
              /\ qret'.val = buff[front]
              /\ buff'[front] = Default]_vars

\* a pop has just succeeded after the indices wrapped; the live window is
\* neither empty nor the whole storage and holds only pushed values
C13_Witness ==
    /\ Len(popped) > qcap
    /\ size >= 1 /\ size < qcap
    /\ qret.op = "pop" /\ qret.tag = "Ok"
    /\ \A s \in Window : buff[s] # Default

\* C14: after a push was rejected with QueueFull (capacity >= 1) and one pop
\* succeeded, pushing the rejected item again succeeds and puts it behind
\* everything already queued; every successful pop returns the item at the
\* head of the queue, so the retried item comes out after those before it.
C14_RetryAfterPopSucceeds ==
    [][/\ (/\ qcap >= 1
           /\ retry.stage = "popped"
           /\ qret'.op = "push"
           /\ qret'.arg = retry.item) =>
              /\ qret'.tag = "Ok"
              /\ retry'.stage = "retried"
              /\ Contents' = Append(Contents, retry.item)
       /\ (qret'.op = "pop" /\ qret'.tag = "Ok") =>
              /\ qret'.val = Head(Contents)
              /\ Contents' = Tail(Contents)]_vars

\* the rejected item has just been pushed again after one pop and sits at
\* the back of a full queue, behind a different value at the front
C14_Witness ==
    /\ qcap >= 2
    /\ retry.stage = "retried"
    /\ qret.op = "push" /\ qret.tag = "Ok" /\ qret.arg = retry.item
    /\ size = qcap
    /\ Contents[size] = retry.item
    /\ Contents[1] # retry.item

\* C15 (as claimed): no call on a constructed buffer evaluates the head
\* formula with length 0: head() and peek_head() never abort, and the index
\* operator aborts only through its own bounds assertion.
C15_NoDivisionByZero ==
    Constructed =>
        /\ ret.op \in {"head", "peek_head"} => ret.tag # "Panic"
        /\ (ret.op = "index" /\ ret.tag = "Panic") => ~(ret.arg < len)

\* C16: on a partially filled buffer (0 < length < capacity)
\* peek_from_end(n) is absent for every n >= length.
C16_PartialPeekBeyondLenAbsent ==
    (Constructed /\ 0 < len /\ len < cap) =>
        /\ \A n \in len..(MaxCap + 2) : peek_from_end(n) = None
        /\ (ret.op = "peek_from_end" /\ ret.arg >= len) => ret.tag = "None"

\* peek_from_end(length) has just returned absent on a partially filled
\* buffer
C16_Witness ==
    /\ 0 < len /\ len < cap
    /\ ret.op = "peek_from_end" /\ ret.arg = len /\ ret.tag = "None"

\* C17: after k >= 1 inserts head() is 0 when k <= c and
\* (tail + 1) mod c = k mod c when k > c; it is always < length and is the
\* slot of the oldest retained value.
C17_HeadIndex ==
    (Constructed /\ K >= 1) =>
        /\ head = Usize(IF K <= cap THEN 0 ELSE K % cap)
        /\ K > cap => head.val = (tail + 1) % cap
        /\ head.val < len
        /\ At(buf, head.val) = Some(inserted[Max(1, K - cap + 1)])
        /\ ret.op = "head" => ret = Returned("head", 0, head)

\* head() has just returned a slot other than 0 on a wrapped buffer
C17_Witness ==
    /\ K > cap
    /\ ret.op = "head" /\ ret.tag = "Usize"
    /\ ret.val = K % cap
    /\ ret.val # 0

\* C18: with capacity c >= 1, 0 <= size <= c, front and back are in 0..c-1
\* and back == (front + size) mod c (front == back exactly when empty or
\* full); a successful push adds 1 to size and advances only back, a
\* successful pop takes 1 from size and advances only front.
C18_QueueIndexInvariant ==
    /\ [](qcap >= 1 =>
            /\ 0 <= size /\ size <= qcap
            /\ front \in 0..(qcap - 1)
            /\ back \in 0..(qcap - 1)
            /\ back = (front + size) % qcap
            /\ (front = back) <=> (size = 0 \/ size = qcap))
    /\ [][qcap >= 1 =>
            /\ (qret'.op = "push" /\ qret'.tag = "Ok") =>
                  /\ size' = size + 1
                  /\ back' = (back + 1) % qcap
                  /\ front' = front
            /\ (qret'.op = "pop" /\ qret'.tag = "Ok") =>
                  /\ size' = size - 1
                  /\ front' = (front + 1) % qcap
                  /\ back' = back]_vars

\* a push has just filled the queue with both indices wrapped to the same
\* slot, which is not slot 0
C18_Witness ==
    /\ qcap >= 2
    /\ size = qcap
    /\ front = back /\ front # 0
    /\ Len(pushed) > qcap
    /\ qret.op = "push" /\ qret.tag = "Ok"

\* C19: 0 <= tail_index < capacity and after k >= 1 inserts
\* tail_index == (k - 1) mod capacity; an insert advances tail by one modulo
\* capacity, overwrites the slot at the new tail only, and leaves capacity
\* and every other slot unchanged.
C19_TailInvariantInsertFrame ==
    /\ [](Constructed =>
            /\ tail \in 0..(cap - 1)
            /\ K >= 1 => tail = (K - 1) % cap)
    /\ [][ret'.op = "insert" =>
            /\ tail' = (tail + 1) % cap
            /\ cap' = cap
            /\ buf' = [buf EXCEPT ![tail'] = ret'.arg]]_vars

\* an insert has just overwritten the tail slot of a wrapped buffer that
\* still holds a different value in another slot
C19_Witness ==
    /\ K > cap
    /\ ret.op = "insert"
    /\ tail = (K - 1) % cap
    /\ buf[tail] = ret.arg
    /\ \E s \in DOMAIN buf : buf[s] # ret.arg

\* C20: a queue of capacity 0 is accepted by new; every push returns
\* QueueFull, every pop QueueEmpty, peek_front absent, size stays 0 and no
\* call aborts.
C20_ZeroCapacityQueue ==
    qcap = 0 =>
        /\ size = 0
        /\ peek_front = None
        /\ qret.tag # "Panic"
        /\ qret.op = "new" => qret.tag = "Unit"
        /\ qret.op = "push" => qret.tag = "QueueFull"
        /\ qret.op = "pop" => qret.tag = "QueueEmpty"
        /\ qret.op = "peek_front" => qret.tag = "None"

\* a push has just been rejected by a queue of capacity 0
C20_Witness ==
    /\ qcap = 0
    /\ qret.op = "push" /\ qret.tag = "QueueFull"

\* ---- specifications -----------------------------------------------------
\* The two containers share no state; each is explored on its own, next to
\* an instance of the other one that is constructed and never called.
BufInit ==
    /\ \E c \in 0..MaxCap : CircularBuffer_new(c)
    /\ StaticSizeQueue_new(0)

QueueInit ==
    /\ CircularBuffer_new(1)
    /\ \E c \in 0..MaxCap : StaticSizeQueue_new(c)

BufSpec == BufInit /\ [][BufNext]_vars

QueueSpec == QueueInit /\ [][QueueNext]_vars

====
